---- MODULE Spec2Model ----
(***************************************************************************)
(* Model of the patient pipeline of the diabetes application: the handlers *)
(* of main.py (register, login, logout, submit_patient, patients_dashboard,*)
(* delete_patient) acting on the three tables of models/database.py.       *)
(*                                                                         *)
(* Granularity: one step per database transaction.  submit_patient commits *)
(* twice (main.py 348 and 361), so it is two steps and the state between   *)
(* them is a committed state other requests can see; every other handler   *)
(* commits at most once and is one step.  Work a handler does before its   *)
(* first commit (session check, predict_diabetes, building the row) reads  *)
(* no shared mutable state and is folded into that step; the order of its  *)
(* calls is kept in exchange.calls.                                        *)
(* Requests of different clients interleave at these steps, as they do     *)
(* when several workers serve one database; a client has one request at a  *)
(* time.  A commit may fail for reasons outside the program (dbFails).     *)
(*                                                                         *)
(* Numbers are integers; a percentage is kept in tenths of a percent       *)
(* (250 stands for 25.0).  The accented result texts are written without   *)
(* accents.  The order_by of the dashboard is not represented: the listing *)
(* is the set of rows returned, and the statistics do not depend on order. *)
(* Patient.name, passwords and timestamps are not represented.             *)
(***************************************************************************)
EXTENDS Integers, FiniteSets, Sequences, TLC

(* ---------------- bounds of the model ---------------- *)
MaxMedecinId == 2
MaxPatientId == 2
MaxListed == 4

Clients == {"c1", "c2"}
Usernames == {"u1", "u2"}
(* the accounts asked for: two distinct ones, and one with the email of the
   first under the username of the second *)
Accounts ==
  {[username |-> "u1", email |-> "e1"], [username |-> "u2", email |-> "e2"],
   [username |-> "u2", email |-> "e1"]}

(* form values: one value inside each range, the others outside it *)
Ages == {-1, 50, 151}
Sexes == {"F", "X"}
Glucoses == {-1, 148}
Bmis == {-1, 34, 101}
BloodPressures == {-1, 72}
Pedigrees == {-1, 1}

ValidForm ==
  [age |-> 50, sex |-> "F", glucose |-> 148, bmi |-> 34,
   bloodpressure |-> 72, pedigree |-> 1]

(* the valid form and the forms that differ from it in one field *)
Forms ==
  {[ValidForm EXCEPT !.age = v] : v \in Ages}
  \cup {[ValidForm EXCEPT !.sex = v] : v \in Sexes}
  \cup {[ValidForm EXCEPT !.glucose = v] : v \in Glucoses}
  \cup {[ValidForm EXCEPT !.bmi = v] : v \in Bmis}
  \cup {[ValidForm EXCEPT !.bloodpressure = v] : v \in BloodPressures}
  \cup {[ValidForm EXCEPT !.pedigree = v] : v \in Pedigrees}

(* what the classifier does on one call: it raises, or it returns a label  *)
(* and the largest class probability (x100)                                *)
InferenceOutcomes ==
  {[raises |-> TRUE, label |-> 0, proba |-> 0],
   [raises |-> FALSE, label |-> 0, proba |-> 90],
   [raises |-> FALSE, label |-> 1, proba |-> 60]}

FilterStatuses == {"None", "diabetic", "non_diabetic"}

(* ---------------- values ---------------- *)
NoSession == 0
Diabetique == "Diabetique"
NonDiabetique == "Non diabetique"
ErreurDePrediction == "Erreur de prediction"

VARIABLES
  diabetes_model,    \* "loaded" or "None": set once at import (main.py 23-28)
  medecins,          \* rows of table medecins
  patients,          \* rows of table patients
  predictions,       \* rows of table predictions
  nextMedecinId,     \* autoincrement sequences
  nextPatientId,
  nextPredictionId,
  session,           \* per client: request.session["doctor_id"], NoSession if absent
  pending,           \* per client: a submit_patient between its two commits
  exchange           \* the request handled by the latest step and its answer

vars ==
  <<diabetes_model, medecins, patients, predictions, nextMedecinId,
    nextPatientId, nextPredictionId, session, pending, exchange>>

store == <<medecins, patients, predictions>>

(* ---------------- records ---------------- *)
ZeroStats ==
  [total |-> 0, diabetic |-> 0, non_diabetic |-> 0, diabetic_percentage |-> 0]

NoPending ==
  [active |-> FALSE, form |-> ValidForm, patient_id |-> 0, prediction |-> 0,
   confidence |-> 0, result_text |-> ""]

(* exchange: who asked (doctor_id: the doctor of the client's session), what
   (handler and its arguments form / patient_id / filter_status), what the
   handler did (calls, in order; store_error: the store refused or failed
   the transaction; inference_failed: the classifier was missing or raised; prediction and result_text as interpreted at main.py 326-332)
   and the answer (kind, listed, stats).  kind "none": no answer yet.
   before: the patients and predictions tables as the step found them.
   The slot is filled by a handler step and emptied by respond before the
   next handler step, so that in a state with a filled slot the tables are
   exactly as that step left them. *)
NoExchange ==
  [handler |-> "none", kind |-> "none", doctor_id |-> NoSession,
   calls |-> <<>>, store_error |-> FALSE, form |-> ValidForm,
   inference_failed |-> FALSE,
   prediction |-> 0, result_text |-> "", patient_id |-> 0,
   filter_status |-> "None", listed |-> {}, stats |-> ZeroStats,
   before |-> [patients |-> {}, predictions |-> {}]]

Answer(c, handler, kind, calls) ==
  [NoExchange EXCEPT !.handler = handler, !.kind = kind,
                     !.doctor_id = session[c], !.calls = calls,
                     !.before = [patients |-> patients, predictions |-> predictions]]

(* ---------------- models/database.py ---------------- *)
CheckConstraints(row) ==
  /\ row.age >= 0 /\ row.age <= 150
  /\ row.sex \in {"M", "F", "Homme", "Femme"}
  /\ row.glucose >= 0
  /\ row.bmi >= 0 /\ row.bmi <= 100
  /\ row.pedigree >= 0

PatientForeignKey(row) == \E d \in medecins : d.id = row.doctorid

PredictionForeignKey(row, pats) == \E p \in pats : p.id = row.patientid

(* variant: no cascade from patients to predictions *)
PredictionsAfterDeleteNoCascade(gone) == predictions

(* rows left after deleting the patients in gone: ondelete CASCADE on
   predictions.patientid and cascade="all, delete" on Patient.predictions *)
PredictionsAfterDelete(gone) ==
  {pr \in predictions : ~ \E p \in gone : p.id = pr.patientid}

(* rows left after deleting medecin d: ondelete CASCADE on patients.doctorid *)
PatientsAfterDeleteMedecin(d) == {p \in patients : p.doctorid # d.id}

(* ---------------- main.py: helpers ---------------- *)
(* variant: the session check is missing *)
logged_in_unchecked(c) == TRUE

(* "doctor_id" in request.session *)
logged_in(c) == session[c] # NoSession

get_user_by_username(username) == {d \in medecins : d.username = username}

get_user_by_email(email) == {d \in medecins : d.email = email}

(* variant: no guard on the missing model and no try/except around inference *)
predict_diabetes_unguarded(model, inference) ==
  IF model = "None" \/ inference.raises
  THEN [raised |-> TRUE, is_none |-> TRUE, prediction |-> 0, confidence |-> 0]
  ELSE [raised |-> FALSE, is_none |-> FALSE,
        prediction |-> inference.label, confidence |-> inference.proba]

(* predict_diabetes: raised says whether the call raises, is_none whether
   the prediction returned is None *)
predict_diabetes(model, inference) ==
  IF model = "None"
  THEN [raised |-> FALSE, is_none |-> TRUE, prediction |-> 0, confidence |-> 0]
  ELSE IF inference.raises
       THEN [raised |-> FALSE, is_none |-> TRUE, prediction |-> 0, confidence |-> 0]
       ELSE [raised |-> FALSE, is_none |-> FALSE,
             prediction |-> inference.label, confidence |-> inference.proba]

(* variant: the two labels exchanged *)
result_text_swapped(r) ==
  IF ~ r.is_none
  THEN (IF r.prediction = 1 THEN NonDiabetique ELSE Diabetique)
  ELSE ErreurDePrediction

(* main.py 326-330 *)
result_text_of(r) ==
  IF ~ r.is_none
  THEN (IF r.prediction = 1 THEN Diabetique ELSE NonDiabetique)
  ELSE ErreurDePrediction

(* variant: the percentage cut to one decimal instead of rounded *)
TruncateTenths(n, d) == (1000 * n) \div d

(* round(x, 1) of x = 100 * n / d, in tenths: nearest, ties to even *)
RoundTenths(n, d) ==
  LET q == (1000 * n) \div d
      r == (1000 * n) % d
  IN  IF 2 * r < d THEN q
      ELSE IF 2 * r > d THEN q + 1
      ELSE IF q % 2 = 0 THEN q ELSE q + 1

Listing(doctor_id, filter_status) ==
  {p \in patients :
     /\ p.doctorid = doctor_id
     /\ (filter_status = "diabetic" => p.result = Diabetique)
     /\ (filter_status = "non_diabetic" => p.result = NonDiabetique)}

Statistics(listed) ==
  LET total_patients == Cardinality(listed)
      diabetic_patients == Cardinality({p \in listed : p.result = Diabetique})
      diabetic_percentage ==
        IF total_patients > 0 THEN RoundTenths(diabetic_patients, total_patients) ELSE 0
  IN  [total |-> total_patients, diabetic |-> diabetic_patients,
       non_diabetic |-> total_patients - diabetic_patients,
       diabetic_percentage |-> diabetic_percentage]

(* ---------------- initial state ---------------- *)
Init ==
  /\ diabetes_model \in {"loaded", "None"}
  /\ medecins = {}
  /\ patients = {}
  /\ predictions = {}
  /\ nextMedecinId = 1
  /\ nextPatientId = 1
  /\ nextPredictionId = 1
  /\ session = [c \in Clients |-> NoSession]
  /\ pending = [c \in Clients |-> NoPending]
  /\ exchange = NoExchange

(* ---------------- main.py: handlers ---------------- *)
register_submit(c, username, email, dbFails) ==
  /\ exchange = NoExchange
  /\ ~ pending[c].active
  /\ UNCHANGED <<diabetes_model, patients, predictions, nextPatientId,
                 nextPredictionId, session, pending>>
  /\ IF get_user_by_username(username) # {} \/ get_user_by_email(email) # {}
     THEN /\ exchange' = Answer(c, "register", "register_error", <<>>)
          /\ UNCHANGED <<medecins, nextMedecinId>>
     ELSE IF dbFails
     THEN /\ exchange' = [Answer(c, "register", "register_error",
                                 <<"db.commit", "db.rollback">>)
                            EXCEPT !.store_error = TRUE]
          /\ UNCHANGED <<medecins, nextMedecinId>>
     ELSE /\ medecins' = medecins \cup
               {[id |-> nextMedecinId, username |-> username, email |-> email]}
          /\ nextMedecinId' = nextMedecinId + 1
          /\ exchange' = Answer(c, "register", "register_ok", <<"db.commit">>)

login_submit(c, username, passwordOk, dbFails) ==
  /\ exchange = NoExchange
  /\ ~ pending[c].active
  /\ UNCHANGED <<diabetes_model, medecins, patients, predictions, nextMedecinId,
                 nextPatientId, nextPredictionId, pending>>
  /\ IF dbFails \/ get_user_by_username(username) = {} \/ ~ passwordOk
     THEN /\ exchange' = Answer(c, "login", "login_error", <<>>)
          /\ UNCHANGED session
     ELSE /\ session' = [session EXCEPT ![c] =
                           (CHOOSE d \in get_user_by_username(username) : TRUE).id]
          /\ exchange' = Answer(c, "login", "redirect_patients", <<>>)

logout(c) ==
  /\ exchange = NoExchange
  /\ ~ pending[c].active
  /\ session' = [session EXCEPT ![c] = NoSession]
  /\ exchange' = Answer(c, "logout", "redirect_login", <<>>)
  /\ UNCHANGED <<diabetes_model, medecins, patients, predictions, nextMedecinId,
                 nextPatientId, nextPredictionId, pending>>

(* submit_patient up to and including its first commit (main.py 312-349) *)
submit_patient(c, form, inference, dbFails) ==
  /\ exchange = NoExchange
  /\ ~ pending[c].active
  /\ UNCHANGED <<diabetes_model, medecins, predictions, nextMedecinId,
                 nextPredictionId, session>>
  /\ IF ~ logged_in(c)
     THEN /\ exchange' = [Answer(c, "submit", "redirect_login", <<>>)
                            EXCEPT !.form = form]
          /\ UNCHANGED <<patients, nextPatientId, pending>>
     ELSE
       LET r == predict_diabetes(diabetes_model, inference)
           result_text == result_text_of(r)
           prediction == IF r.is_none THEN -1 ELSE r.prediction
           confidence == IF r.is_none THEN 0 ELSE r.confidence
           db_patient ==
             [id |-> nextPatientId, doctorid |-> session[c], age |-> form.age,
              sex |-> form.sex, glucose |-> form.glucose, bmi |-> form.bmi,
              bloodpressure |-> form.bloodpressure, pedigree |-> form.pedigree,
              result |-> result_text]
           committed ==
             /\ ~ dbFails
             /\ CheckConstraints(db_patient)
             /\ PatientForeignKey(db_patient)
           seen ==
             [Answer(c, "submit", "none", <<>>)
                EXCEPT !.form = form,
                       !.inference_failed = (diabetes_model = "None" \/ inference.raises),
                       !.prediction = prediction, !.result_text = result_text]
       IN  IF r.raised
           THEN /\ exchange' = [seen EXCEPT !.kind = "submit_error",
                                   !.prediction = 0, !.result_text = "",
                                   !.calls = <<"predict_diabetes", "db.rollback">>]
                /\ UNCHANGED <<patients, nextPatientId, pending>>
           ELSE IF ~ committed
           THEN /\ exchange' = [seen EXCEPT !.kind = "submit_error",
                                   !.store_error = TRUE,
                                   !.calls = <<"predict_diabetes", "db.commit", "db.rollback">>]
                /\ UNCHANGED <<patients, nextPatientId, pending>>
           ELSE /\ patients' = patients \cup {db_patient}
                /\ nextPatientId' = nextPatientId + 1
                /\ IF prediction # -1
                   THEN /\ pending' = [pending EXCEPT ![c] =
                                         [active |-> TRUE, form |-> form,
                                          patient_id |-> db_patient.id,
                                          prediction |-> prediction,
                                          confidence |-> confidence,
                                          result_text |-> result_text]]
                        /\ exchange' = [seen EXCEPT !.patient_id = db_patient.id,
                                          !.calls = <<"predict_diabetes", "db.commit">>]
                   ELSE /\ UNCHANGED pending
                        /\ exchange' = [seen EXCEPT !.kind = "submit_ok",
                                          !.patient_id = db_patient.id,
                                          !.calls = <<"predict_diabetes", "db.commit">>]

(* submit_patient from the Prediction insert to its answer (main.py 353-378) *)
submit_prediction(c, dbFails) ==
  /\ exchange = NoExchange
  /\ pending[c].active
  /\ UNCHANGED <<diabetes_model, medecins, patients, nextMedecinId,
                 nextPatientId, session>>
  /\ pending' = [pending EXCEPT ![c] = NoPending]
  /\ LET db_prediction ==
           [id |-> nextPredictionId, patientid |-> pending[c].patient_id,
            result |-> pending[c].prediction, confidence |-> pending[c].confidence]
         committed == ~ dbFails /\ PredictionForeignKey(db_prediction, patients)
         seen ==
           [Answer(c, "submit", "none", <<>>)
              EXCEPT !.form = pending[c].form,
                     !.patient_id = pending[c].patient_id,
                     !.prediction = pending[c].prediction,
                     !.result_text = pending[c].result_text]
     IN  IF committed
         THEN /\ predictions' = predictions \cup {db_prediction}
              /\ nextPredictionId' = nextPredictionId + 1
              /\ exchange' = [seen EXCEPT !.kind = "submit_ok",
                                !.calls = <<"predict_diabetes", "db.commit", "db.commit">>]
         ELSE /\ UNCHANGED <<predictions, nextPredictionId>>
              /\ exchange' = [seen EXCEPT !.kind = "submit_error",
                                !.store_error = TRUE,
                                !.calls = <<"predict_diabetes", "db.commit", "db.commit",
                                            "db.rollback">>]

patients_dashboard(c, filter_status, dbFails) ==
  /\ exchange = NoExchange
  /\ ~ pending[c].active
  /\ UNCHANGED <<diabetes_model, medecins, patients, predictions, nextMedecinId,
                 nextPatientId, nextPredictionId, session, pending>>
  /\ IF ~ logged_in(c)
     THEN exchange' = [Answer(c, "dashboard", "redirect_login", <<>>)
                         EXCEPT !.filter_status = filter_status]
     ELSE IF dbFails
     THEN exchange' = [Answer(c, "dashboard", "dashboard_error", <<"db.query">>)
                         EXCEPT !.filter_status = filter_status,
                                !.store_error = TRUE]
     ELSE LET listed == Listing(session[c], filter_status)
          IN  exchange' = [Answer(c, "dashboard", "dashboard", <<"db.query">>)
                             EXCEPT !.filter_status = filter_status,
                                    !.listed = listed,
                                    !.stats = Statistics(listed)]

(* variant: the lookup by id alone *)
find_patient_any_doctor(patient_id, doctor_id) ==
  {p \in patients : p.id = patient_id}

(* main.py 461-464 *)
find_patient(patient_id, doctor_id) ==
  {p \in patients : p.id = patient_id /\ p.doctorid = doctor_id}

delete_patient(c, patient_id, dbFails) ==
  /\ exchange = NoExchange
  /\ ~ pending[c].active
  /\ UNCHANGED <<diabetes_model, medecins, nextMedecinId, nextPatientId,
                 nextPredictionId, session, pending>>
  /\ IF ~ logged_in(c)
     THEN /\ exchange' = [Answer(c, "delete", "redirect_login", <<>>)
                            EXCEPT !.patient_id = patient_id]
          /\ UNCHANGED <<patients, predictions>>
     ELSE
       LET found == find_patient(patient_id, session[c])
           seen == [Answer(c, "delete", "none", <<>>) EXCEPT !.patient_id = patient_id]
       IN  IF dbFails
           THEN /\ exchange' = [seen EXCEPT !.kind = "delete_error",
                                   !.store_error = TRUE,
                                   !.calls = <<"db.query", "db.rollback">>]
                /\ UNCHANGED <<patients, predictions>>
           ELSE IF found = {}
           THEN /\ exchange' = [seen EXCEPT !.kind = "delete_not_found",
                                   !.calls = <<"db.query">>]
                /\ UNCHANGED <<patients, predictions>>
           ELSE /\ patients' = patients \ found
                /\ predictions' = PredictionsAfterDelete(found)
                /\ exchange' = [seen EXCEPT !.kind = "delete_ok",
                                  !.calls = <<"db.query", "db.delete", "db.commit">>]

(* a medecin row is deleted in the store (no handler of main.py does it);
   the schema cascades to the patients and their predictions *)
delete_medecin(d) ==
  /\ exchange = NoExchange
  /\ d \in medecins
  /\ medecins' = medecins \ {d}
  /\ patients' = PatientsAfterDeleteMedecin(d)
  /\ predictions' = PredictionsAfterDelete(patients \ PatientsAfterDeleteMedecin(d))
  /\ exchange' = [NoExchange EXCEPT !.handler = "delete_medecin",
                    !.doctor_id = d.id,
                    !.before = [patients |-> patients, predictions |-> predictions]]
  /\ UNCHANGED <<diabetes_model, nextMedecinId, nextPatientId, nextPredictionId,
                 session, pending>>

(* the exchange of the latest step is over (its answer went back to the
   client, or the handler moves on to its next transaction): the slot is
   free again *)
respond ==
  /\ exchange # NoExchange
  /\ exchange' = NoExchange
  /\ UNCHANGED <<diabetes_model, medecins, patients, predictions, nextMedecinId,
                 nextPatientId, nextPredictionId, session, pending>>

(* ---------------- specifications ---------------- *)
(* Spec: every handler, two clients, two doctors; the forms submitted are
   the valid one and one the store rejects.  SpecValidation: the same with
   every form of Forms.  SpecStore: Spec plus the deletion of medecin rows.
   SpecDashboard: two logged-in doctors and up to MaxListed patients, the
   classifier loaded and the store never failing a write. *)
SubmittedForms == {ValidForm, [ValidForm EXCEPT !.age = 151]}

Register ==
  \E c \in Clients, a \in Accounts, f \in BOOLEAN :
    nextMedecinId <= MaxMedecinId /\ register_submit(c, a.username, a.email, f)

Login ==
  \E c \in Clients, u \in Usernames, ok \in BOOLEAN, f \in BOOLEAN :
    login_submit(c, u, ok, f)

Logout == \E c \in Clients : logout(c)

Submit ==
  \E c \in Clients, form \in SubmittedForms, i \in InferenceOutcomes, f \in BOOLEAN :
    nextPatientId <= MaxPatientId /\ submit_patient(c, form, i, f)

SubmitAnyForm ==
  \E c \in Clients, form \in Forms, i \in InferenceOutcomes, f \in BOOLEAN :
    nextPatientId <= MaxPatientId /\ submit_patient(c, form, i, f)

SubmitPrediction == \E c \in Clients, f \in BOOLEAN : submit_prediction(c, f)

Dashboard ==
  \E c \in Clients, fs \in FilterStatuses, f \in BOOLEAN : patients_dashboard(c, fs, f)

Delete ==
  \E c \in Clients, id \in 1..MaxPatientId, f \in BOOLEAN : delete_patient(c, id, f)

DeleteMedecin == \E d \in medecins : delete_medecin(d)

Next ==
  \/ Register
  \/ Login
  \/ Logout
  \/ Submit
  \/ SubmitPrediction
  \/ Dashboard
  \/ Delete
  \/ respond

Spec == Init /\ [][Next]_vars

NextValidation ==
  \/ Register
  \/ Login
  \/ Logout
  \/ SubmitAnyForm
  \/ SubmitPrediction
  \/ Dashboard
  \/ Delete
  \/ respond

SpecValidation == Init /\ [][NextValidation]_vars

NextStore == Next \/ DeleteMedecin

SpecStore == Init /\ [][NextStore]_vars

(* two doctors, registered and logged in, one on each client *)
InitDashboard ==
  /\ diabetes_model = "loaded"
  /\ medecins = {[id |-> 1, username |-> "u1", email |-> "e1"],
                 [id |-> 2, username |-> "u2", email |-> "e2"]}
  /\ patients = {}
  /\ predictions = {}
  /\ nextMedecinId = 3
  /\ nextPatientId = 1
  /\ nextPredictionId = 1
  /\ session = [c \in Clients |-> IF c = "c1" THEN 1 ELSE 2]
  /\ pending = [c \in Clients |-> NoPending]
  /\ exchange = NoExchange

SubmitListed ==
  \E c \in Clients, i \in InferenceOutcomes :
    nextPatientId <= MaxListed /\ submit_patient(c, ValidForm, i, FALSE)

SubmitPredictionListed == \E c \in Clients : submit_prediction(c, FALSE)

DeleteListed ==
  \E c \in Clients, id \in 1..MaxListed : delete_patient(c, id, FALSE)

NextDashboard ==
  \/ SubmitListed
  \/ SubmitPredictionListed
  \/ Dashboard
  \/ DeleteListed
  \/ respond

SpecDashboard == InitDashboard /\ [][NextDashboard]_vars

(* ---------------- properties ---------------- *)
Labelled == {Diabetique, NonDiabetique}

PatientRows(id) == {p \in patients : p.id = id}

PredictionRows(id) == {pr \in predictions : pr.patientid = id}

(* C1: a submit_patient request that fails leaves no Patient row and no
   Prediction row of its own behind. *)
C1_AllOrNothing ==
  (exchange.handler = "submit" /\ exchange.kind = "submit_error")
    => /\ PatientRows(exchange.patient_id) = {}
       /\ PredictionRows(exchange.patient_id) = {}
       /\ patients \subseteq exchange.before.patients
       /\ predictions \subseteq exchange.before.predictions

(* C2: a submit_patient request of a logged-in doctor whose prediction is the
   label 0 or 1 and which answers with success has put exactly one Patient
   row (owned by that doctor) and exactly one Prediction row linked to it in
   the store, the Prediction inserted by the step that answers, and the
   label agrees with the result text: 1 with Diabetique, 0 with Non
   diabetique. *)
C2_OnePatientOnePrediction ==
  (/\ exchange.handler = "submit"
   /\ exchange.kind = "submit_ok"
   /\ exchange.prediction \in {0, 1})
    => /\ Cardinality(PatientRows(exchange.patient_id)) = 1
       /\ Cardinality(PredictionRows(exchange.patient_id)) = 1
       /\ predictions \ exchange.before.predictions = PredictionRows(exchange.patient_id)
       /\ patients = exchange.before.patients
       /\ \A p \in PatientRows(exchange.patient_id) :
            /\ p.doctorid = exchange.doctor_id
            /\ exchange.doctor_id # NoSession
            /\ \A pr \in PredictionRows(exchange.patient_id) :
                 /\ pr.result = exchange.prediction
                 /\ (pr.result = 1 => p.result = Diabetique)
                 /\ (pr.result = 0 => p.result = NonDiabetique)

C2_Witness ==
  /\ exchange.handler = "submit"
  /\ exchange.kind = "submit_ok"
  /\ exchange.prediction = 1
  /\ \E p \in patients : p.id = exchange.patient_id /\ p.result = Diabetique

(* C3: when the classifier is missing or raises, predict_diabetes returns
   (None, 0) without raising: the handler goes on to the Patient insert with
   the label Erreur de prediction and inserts no Prediction row; unless the
   store itself refuses that insert, the request succeeds and has added
   exactly one Patient row, so labelled. *)
C3_PredictionUnavailable ==
  (exchange.handler = "submit" /\ exchange.inference_failed)
    => /\ exchange.prediction = -1
       /\ exchange.result_text = ErreurDePrediction
       /\ exchange.calls \in {<<"predict_diabetes", "db.commit">>,
                              <<"predict_diabetes", "db.commit", "db.rollback">>}
       /\ predictions = exchange.before.predictions
       /\ exchange.kind = (IF exchange.store_error THEN "submit_error" ELSE "submit_ok")
       /\ exchange.kind = "submit_ok"
            => /\ Cardinality(patients \ exchange.before.patients) = 1
               /\ exchange.before.patients \subseteq patients
               /\ \A p \in patients \ exchange.before.patients :
                    /\ p.id = exchange.patient_id
                    /\ p.result = ErreurDePrediction
                    /\ p.doctorid = exchange.doctor_id
               /\ PredictionRows(exchange.patient_id) = {}

C3_Witness ==
  /\ exchange.handler = "submit"
  /\ exchange.inference_failed
  /\ diabetes_model = "loaded"
  /\ exchange.kind = "submit_ok"
  /\ \E p \in patients : p.id = exchange.patient_id /\ p.result = ErreurDePrediction

(* C4: a delete_patient request of a logged-in doctor for an id that is no
   patient of that doctor (another doctor's, or nobody's) does not delete:
   the lookup finds nothing and both tables are as before; and whenever a
   step removes a Patient row, it is a delete_patient request for that row's
   id whose session doctor is the row's doctorid. *)
C4_DeleteOnlyOwn ==
  /\ (/\ exchange.handler = "delete"
      /\ exchange.doctor_id # NoSession
      /\ ~ \E p \in exchange.before.patients :
             p.id = exchange.patient_id /\ p.doctorid = exchange.doctor_id)
       => /\ exchange.kind = (IF exchange.store_error THEN "delete_error"
                                                      ELSE "delete_not_found")
          /\ patients = exchange.before.patients
          /\ predictions = exchange.before.predictions
  /\ \A p \in exchange.before.patients \ patients :
       /\ exchange.handler = "delete"
       /\ exchange.patient_id = p.id
       /\ exchange.doctor_id = p.doctorid

C4_Witness ==
  /\ exchange.handler = "delete"
  /\ exchange.kind = "delete_not_found"
  /\ exchange.doctor_id # NoSession
  /\ \E p \in patients : p.id = exchange.patient_id /\ p.doctorid # exchange.doctor_id

(* C5: whatever register, submit_patient, delete_patient and deletions of
   medecin rows have run, every Patient row references a medecin row and
   every Prediction row a Patient row; a deleted patient leaves none of its
   Predictions, a deleted medecin none of its Patients. *)
C5_ReferentialIntegrity ==
  /\ \A p \in patients : \E d \in medecins : d.id = p.doctorid
  /\ \A pr \in predictions : \E p \in patients : p.id = pr.patientid
  /\ (exchange.handler = "delete" /\ exchange.kind = "delete_ok")
       => PatientRows(exchange.patient_id) = {} /\ PredictionRows(exchange.patient_id) = {}
  /\ exchange.handler = "delete_medecin"
       => /\ ~ \E d \in medecins : d.id = exchange.doctor_id
          /\ ~ \E p \in patients : p.doctorid = exchange.doctor_id

C5_Witness ==
  /\ exchange.handler = "delete_medecin"
  /\ \E p \in exchange.before.patients :
       /\ p.doctorid = exchange.doctor_id
       /\ \E pr \in exchange.before.predictions : pr.patientid = p.id
  /\ \E p \in patients : p.doctorid # exchange.doctor_id

(* C6: a submit_patient request of a logged-in doctor with age, BMI, glucose,
   blood pressure or pedigree outside its range is rejected before
   predict_diabetes is called and before any write to the store is tried. *)
OutOfRange(form) ==
  \/ form.age < 0 \/ form.age > 150
  \/ form.bmi < 0 \/ form.bmi > 100
  \/ form.glucose < 0
  \/ form.bloodpressure < 0
  \/ form.pedigree < 0

Called(name) == \E i \in 1..Len(exchange.calls) : exchange.calls[i] = name

C6_RejectedBeforePrediction ==
  (/\ exchange.handler = "submit"
   /\ exchange.doctor_id # NoSession
   /\ OutOfRange(exchange.form))
    => /\ exchange.kind = "submit_error"
       /\ ~ Called("predict_diabetes")
       /\ ~ Called("db.commit")

(* C7: every stored Patient row is within all the ranges: age in [0,150],
   sex one of M, F, Homme, Femme, glucose >= 0, BMI in [0,100], blood
   pressure >= 0, pedigree >= 0. *)
C7_StoredRowsInRange ==
  \A p \in patients :
    /\ p.age >= 0 /\ p.age <= 150
    /\ p.sex \in {"M", "F", "Homme", "Femme"}
    /\ p.glucose >= 0
    /\ p.bmi >= 0 /\ p.bmi <= 100
    /\ p.bloodpressure >= 0
    /\ p.pedigree >= 0

(* C8: a submit_patient, delete_patient or patients_dashboard request whose
   session has no doctor_id is answered by the redirect to /login and does
   nothing else: no call to the predictor or the store, no row listed, both
   tables as before, no submission left pending. *)
C8_NoSessionNoEffect ==
  (exchange.handler \in {"submit", "delete", "dashboard"} /\ exchange.doctor_id = NoSession)
    => /\ exchange.kind = "redirect_login"
       /\ exchange.calls = <<>>
       /\ exchange.listed = {}
       /\ exchange.stats = ZeroStats
       /\ patients = exchange.before.patients
       /\ predictions = exchange.before.predictions
       /\ \A c \in Clients : pending[c].active => session[c] # NoSession

C8_Witness ==
  /\ exchange.handler = "submit"
  /\ exchange.doctor_id = NoSession
  /\ exchange.kind = "redirect_login"
  /\ patients # {}

(* C9: the percentage a dashboard answers with is computed from the rows it
   lists, which are all the patients of the session's doctor that pass the
   filter: 100 * diabetic / listed to the nearest tenth, 0 when nothing is
   listed, 25.0 for 4 listed of which 1 diabetic. *)
C9_DiabeticPercentage ==
  (exchange.handler = "dashboard" /\ exchange.kind = "dashboard")
    => LET full ==
             {p \in patients :
                /\ p.doctorid = exchange.doctor_id
                /\ CASE exchange.filter_status = "diabetic" -> p.result = Diabetique
                     [] exchange.filter_status = "non_diabetic" -> p.result = NonDiabetique
                     [] OTHER -> TRUE}
           t == Cardinality(full)
           d == Cardinality({p \in full : p.result = Diabetique})
           pct == exchange.stats.diabetic_percentage
           off == pct * t - 1000 * d
       IN  /\ exchange.listed = full
           /\ exchange.stats.total = t
           /\ t = 0 => pct = 0
           /\ t > 0 => (2 * off <= t /\ -2 * off <= t)
           /\ (t = 4 /\ d = 1) => pct = 250

C9_Witness ==
  /\ exchange.handler = "dashboard"
  /\ exchange.kind = "dashboard"
  /\ Cardinality(exchange.listed) = 4
  /\ Cardinality({p \in exchange.listed : p.result = Diabetique}) = 1
  /\ exchange.stats.diabetic_percentage = 250

(* C10: no dashboard lists, and no delete_patient removes, a Patient row
   with result Diabetique or Non diabetique that has no Prediction row. *)
C10_CreationAppearsAtomic ==
  /\ (exchange.handler = "dashboard" /\ exchange.kind = "dashboard")
       => \A p \in exchange.listed :
            p.result \in Labelled => PredictionRows(p.id) # {}
  /\ (exchange.handler = "delete" /\ exchange.kind = "delete_ok")
       => \A p \in exchange.before.patients \ patients :
            p.result \in Labelled
              => \E pr \in exchange.before.predictions : pr.patientid = p.id

(* C11: the counts a dashboard answers with split the listed patients by
   outcome: diabetic is the number listed with result Diabetique,
   non_diabetic the number listed with result Non diabetique, and a patient
   stored as Erreur de prediction is in neither count. *)
C11_CountsPartitionByOutcome ==
  (exchange.handler = "dashboard" /\ exchange.kind = "dashboard")
    => /\ exchange.stats.diabetic =
            Cardinality({p \in exchange.listed : p.result = Diabetique})
       /\ exchange.stats.non_diabetic =
            Cardinality({p \in exchange.listed : p.result = NonDiabetique})
       /\ exchange.stats.diabetic + exchange.stats.non_diabetic =
            Cardinality({p \in exchange.listed : p.result # ErreurDePrediction})

====
